---- MODULE Spec2Model ----
(***************************************************************************)
(* A model of summarize_git_stats.py: the main loop over year ranges, the  *)
(* git commands issued by get_git_user_commit_summary and                  *)
(* get_code_lines_contributed, the parsing of the git log output, and the  *)
(* alias folding, sorting and colouring done for every chart.              *)
(*                                                                         *)
(* Three specifications share the module:                                  *)
(*   Spec       the git side: working-tree reference, commands, failures   *)
(*   SpecLog    the parser of the git log output                           *)
(*   SpecReport the aggregation and the chart inputs of one year range     *)
(***************************************************************************)
EXTENDS Integers, Sequences, FiniteSets, TLC

VARIABLES
    \* ---- the git side ----
    mode,              \* "main": the script is run; "direct": get_code_lines_contributed is called
    today,             \* datetime.now() as <<year, month, day>>
    year_sets,         \* main's list of [start_year, end_year]
    i,                 \* number of year sets the main loop has started
    pc,                \* the position of the program
    start_date,        \* the --since date of the current year set
    date_to_check,     \* the argument of get_code_lines_contributed (end_date)
    check_out,         \* the local check_out of get_code_lines_contributed
    head,              \* the working tree's reference (a branch or a detached commit)
    prev,              \* git's previous reference, the one "checkout -" goes to ("" when none)
    dirty,             \* the working tree has uncommitted changes
    entryHead,         \* head when get_code_lines_contributed was entered
    commit_hash,       \* the stripped output of git rev-list
    todo,              \* the files the walk has not reached yet
    user_line_counts,  \* author -> lines tallied by the walk
    trace,             \* the git commands the current year set has run, in order
    printed,           \* the files whose "Error processing file" line was printed
    charts,            \* the year sets (indices) whose charts were written
    error,             \* the exception that ended the run ("" when none)
    startHead,         \* head when the program started
    \* ---- the log parser ----
    commits,           \* the commits git log reports
    log_output,        \* the lines of git log's output
    pos,               \* lines parsed so far
    current_author,    \* the parser's current_author
    commit_summary,    \* the three dictionaries the parser fills
    \* ---- the report ----
    git_commits,       \* contribution_summary["git_commits"], an insertion-ordered dict
    metric,            \* the metric to render next (1..4; 0 before the colours, 5 after the last)
    metric_data,       \* the raw counts of the metric rendered last
    user_colors,       \* generate_unique_colors(all_users)
    unique_user_data,  \* the folded counts of the metric rendered last
    sorted_users,      \* the chart's labels
    sorted_colors,     \* the chart's colours
    contributions      \* the chart's values

gitVars == <<mode, today, year_sets, i, pc, start_date, date_to_check, check_out, head,
             prev, dirty, entryHead, commit_hash, todo, user_line_counts, trace,
             printed, charts, error, startHead>>
logVars == <<commits, log_output, pos, current_author, commit_summary>>
reportVars == <<git_commits, metric, metric_data, user_colors, unique_user_data,
                sorted_users, sorted_colors, contributions>>
vars == <<gitVars, logVars, reportVars>>

(***************************************************************************)
(* Python values and dates                                                 *)
(***************************************************************************)
IntVal(n) == [t |-> "int", v |-> n]
StrVal(n) == [t |-> "str", v |-> n]
NoneVal == [t |-> "None", v |-> 0]

\* datetime comparison of two <<year, month, day>> dates
DateLess(a, b) ==
    \/ a[1] < b[1]
    \/ a[1] = b[1] /\ a[2] < b[2]
    \/ a[1] = b[1] /\ a[2] = b[2] /\ a[3] < b[3]

\* end_year after the default is applied: year_now is a string
EndYear(end_year, now) == IF end_year = NoneVal THEN StrVal(now[1]) ELSE end_year

\* end_date of get_git_user_commit_summary
EndDate(start_year, end_year, now) ==
    LET ey == EndYear(end_year, now)
    IN  IF ey = IntVal(2021) /\ start_year # IntVal(2021) THEN <<2021, 11, 24>>
        ELSE IF ey = IntVal(now[1]) THEN now
        ELSE <<ey.v, 12, 31>>

\* start_date of get_git_user_commit_summary
StartDate(start_year) ==
    IF start_year = IntVal(2021) THEN <<2021, 11, 25>> ELSE <<start_year.v, 1, 1>>

\* date_to_check after the default is applied
DateToCheck(d, now) == IF d = <<>> THEN now ELSE d

\* whether get_code_lines_contributed skips the checkout: the year is the current year
SkipCheckout(d, now) == d[1] = now[1]

CheckOut(d, now) == ~SkipCheckout(d, now)

\* the era of the repository at a date
date_julia_begin == <<2021, 11, 25>>
CodeVersion(d) == IF DateLess(d, date_julia_begin) THEN "MATLAB" ELSE "Julia"
DirsToWalk(d) ==
    IF DateLess(d, date_julia_begin)
    THEN <<"documentation", "tools", "model", "optimization">>
    ELSE <<"src/", "lib/", "docs/">>

(***************************************************************************)
(* The repository the script runs in: three commits on one line of         *)
(* history, two branches, and the files of each commit's tree.             *)
(***************************************************************************)
Branches == {"main", "dev"}
Commits == {"c1", "c2", "c3"}
Refs == Branches \cup Commits
NoRef == ""

CommitOrder == <<"c1", "c2", "c3">>
CommitDate(c) ==
    CASE c = "c1" -> <<2016, 3, 1>>
      [] c = "c2" -> <<2022, 5, 1>>
      [] c = "c3" -> <<2025, 2, 1>>

\* the commit a reference points to
Tip(r) ==
    CASE r = "main" -> "c3"
      [] r = "dev" -> "c2"
      [] OTHER -> r

Index(c) == CHOOSE k \in 1..Len(CommitOrder) : CommitOrder[k] = c

\* git rev-list --before=d --max-count=1 HEAD: the latest commit reachable from
\* HEAD that is not after d, "" when there is none
RevList(h, d) ==
    LET ok == {k \in 1..Index(Tip(h)) : ~DateLess(d, CommitDate(CommitOrder[k]))}
    IN  IF ok = {} THEN NoRef
        ELSE CommitOrder[CHOOSE k \in ok : \A m \in ok : m <= k]

File(d, n, e) == [dir |-> d, name |-> n, ext |-> e]

\* the files of a commit's tree, in the order os.walk lists them
Tree(c) ==
    CASE c = "c1" -> <<File("model", "model/d.m", ".m"), File("tools", "tools/e.m", ".m"),
                       File("tools", "tools/notes.txt", ".txt")>>
      [] c = "c2" -> <<File("lib/", "lib/c.jl", ".jl"), File("model", "model/d.m", ".m"),
                       File("src/", "src/a.jl", ".jl")>>
      [] c = "c3" -> <<File("docs/", "docs/x.jl", ".jl"), File("lib/", "lib/c.jl", ".jl"),
                       File("src/", "src/README.md", ".md"), File("src/", "src/a.jl", ".jl")>>

Authors == {"A", "B"}

\* the author of every line of a file, as git blame --line-porcelain reports them
BlameAuthors(name) ==
    CASE name = "src/a.jl" -> <<"A", "B">>
      [] name = "lib/c.jl" -> <<"B">>
      [] name = "model/d.m" -> <<"A", "A">>
      [] name = "tools/e.m" -> <<"B">>
      [] name = "docs/x.jl" -> <<"A">>
      [] OTHER -> <<>>

\* file.endswith(('.jl', '.m'))
Relevant(f) == f.ext \in {".jl", ".m"}

RECURSIVE WalkFrom(_, _, _)
\* the relevant files of the directories dirs[k..], directory by directory
WalkFrom(dirs, tree, k) ==
    IF k > Len(dirs) THEN <<>>
    ELSE SelectSeq(tree, LAMBDA f : f.dir = dirs[k] /\ Relevant(f))
         \o WalkFrom(dirs, tree, k + 1)

\* the files the three nested loops visit, in order
WalkList(d, h) == WalkFrom(DirsToWalk(d), Tree(Tip(h)), 1)

(***************************************************************************)
(* The git side: main, get_git_user_commit_summary and                     *)
(* get_code_lines_contributed, one action per git command.                 *)
(***************************************************************************)
Todays == {<<2025, 6, 15>>}
Argvs == {<<>>, <<2014>>, <<2014, 2015>>, <<2021, 2022>>}
DirectDates == {<<>>, <<2025, 3, 1>>, <<2020, 1, 1>>}

\* year_sets as main builds it from the command line
YearSets(argv, now) ==
    IF Len(argv) = 0
    THEN <<<<2014, 2021>>, <<2014, 2025>>, <<2017, 2021>>, <<2021, 2022>>,
           <<2022, 2023>>, <<2023, 2024>>, <<2024, 2025>>, <<2021, 2025>>>>
    ELSE <<<<argv[1], IF Len(argv) > 1 THEN argv[2] ELSE now[1]>>>>

Cmd(c, a, r, o) == [cmd |-> c, arg |-> a, rc |-> r, out |-> o]
ZeroCounts == [a \in Authors |-> 0]

\* a variant that never sees the log command fail
LogFailedMut(rc) == FALSE
\* log_result.returncode != 0
LogFailed(rc) == rc # 0

\* the stripped output of git status --porcelain
StatusOutput(d) == IF d THEN "M" ELSE ""

\* a variant that never sees uncommitted changes
HasUncommittedChangesMut(out) == FALSE
\* has_uncommitted_changes = bool(status_result.stdout.strip())
HasUncommittedChanges(out) == out # ""

\* a variant that goes back to a fixed branch
RestoreTargetMut(p) == "main"
\* the argument of the final git checkout: "-", git's previous reference
RestoreTarget(p) == p

RECURSIVE CountAuthors(_, _, _)
\* user_line_counts after the author lines lines[k..] of a blame output
CountAuthors(counts, lines, k) ==
    IF k > Len(lines) THEN counts
    ELSE CountAuthors([counts EXCEPT ![lines[k]] = @ + 1], lines, k + 1)

\* a variant that counts the lines of a file whatever became of its blame
AfterBlameMut(counts, name, r) == CountAuthors(counts, BlameAuthors(name), 1)
\* user_line_counts after one file: r is "ok", "nonzero" (the exit status) or
\* "raise" (subprocess.run raised)
AfterBlame(counts, name, r) ==
    IF r = "ok" THEN CountAuthors(counts, BlameAuthors(name), 1) ELSE counts

logIdle ==
    /\ commits = <<>>
    /\ log_output = <<>>
    /\ pos = 0
    /\ current_author = "None"
    /\ commit_summary = <<>>
reportIdle ==
    /\ git_commits = <<>>
    /\ metric = 0
    /\ metric_data = <<>>
    /\ user_colors = <<>>
    /\ unique_user_data = <<>>
    /\ sorted_users = <<>>
    /\ sorted_colors = <<>>
    /\ contributions = <<>>

Init ==
    /\ mode \in {"main", "direct"}
    /\ today \in Todays
    /\ year_sets \in IF mode = "main" THEN {YearSets(a, today) : a \in Argvs} ELSE {<<>>}
    /\ i = 0
    /\ pc = IF mode = "main" THEN "main" ELSE "call"
    /\ start_date = <<>>
    /\ date_to_check = <<>>
    /\ check_out = FALSE
    /\ head \in {"main", "dev", "c2"}
    /\ prev \in {NoRef, "main", "dev"}
    /\ dirty \in BOOLEAN
    /\ entryHead = head
    /\ startHead = head
    /\ commit_hash = ""
    /\ todo = <<>>
    /\ user_line_counts = ZeroCounts
    /\ trace = <<>>
    /\ printed = {}
    /\ charts = {}
    /\ error = ""
    /\ logIdle
    /\ reportIdle

\* the raise of an exception nothing catches: the run ends
Raise(e) ==
    /\ pc' = "aborted"
    /\ error' = e

\* the walk starts on the tree of reference h
EnterWalk(h, d) ==
    /\ pc' = "walk"
    /\ todo' = WalkList(d, h)

\* get_code_lines_contributed(d) is entered
Enter(d) ==
    /\ date_to_check' = DateToCheck(d, today)
    /\ check_out' = CheckOut(date_to_check', today)
    /\ entryHead' = head
    /\ commit_hash' = ""
    /\ user_line_counts' = ZeroCounts
    /\ printed' = {}
    /\ IF check_out' THEN pc' = "status" /\ todo' = <<>> ELSE EnterWalk(head, date_to_check')

\* main's loop takes the next year set
StartYearSet ==
    /\ pc = "main"
    /\ i < Len(year_sets)
    /\ i' = i + 1
    /\ start_date' = StartDate(IntVal(year_sets[i'][1]))
    /\ date_to_check' = EndDate(IntVal(year_sets[i'][1]), IntVal(year_sets[i'][2]), today)
    /\ trace' = <<>>
    /\ pc' = "log"
    /\ UNCHANGED <<mode, today, year_sets, check_out, head, prev, dirty, entryHead,
                   commit_hash, todo, user_line_counts, printed, charts, error>>
    /\ UNCHANGED <<startHead, logVars, reportVars>>

\* git log; a non-zero exit raises, otherwise (the output parsed)
\* get_code_lines_contributed(end_date) is entered
GitLog ==
    /\ pc = "log"
    /\ \E rc \in {0, 1} :
        /\ trace' = Append(trace, Cmd("log", "", rc, ""))
        /\ IF LogFailed(rc)
           THEN /\ Raise("Exception")
                /\ UNCHANGED <<date_to_check, check_out, entryHead, commit_hash, todo,
                               user_line_counts, printed>>
           ELSE /\ Enter(date_to_check)
                /\ error' = error
    /\ UNCHANGED <<mode, today, year_sets, i, start_date, head, prev, dirty, charts>>
    /\ UNCHANGED <<startHead, logVars, reportVars>>

\* a caller calls get_code_lines_contributed(date_to_check) itself
DirectCall ==
    /\ pc = "call"
    /\ \E d \in DirectDates : Enter(d)
    /\ trace' = <<>>
    /\ UNCHANGED <<mode, today, year_sets, i, start_date, head, prev, dirty, charts, error>>
    /\ UNCHANGED <<startHead, logVars, reportVars>>

\* git status --porcelain: it fails (logged, the rest of the try block skipped),
\* or reports changes (RuntimeError), or reports a clean tree
GitStatus ==
    /\ pc = "status"
    /\ \E rc \in {0, 1} :
        LET out == IF rc = 0 THEN StatusOutput(dirty) ELSE ""
        IN  /\ trace' = Append(trace, Cmd("status", "", rc, out))
            /\ IF rc # 0
               THEN EnterWalk(head, date_to_check) /\ error' = error
               ELSE IF HasUncommittedChanges(out)
               THEN Raise("RuntimeError") /\ todo' = todo
               ELSE pc' = "revlist" /\ todo' = todo /\ error' = error
    /\ UNCHANGED <<mode, today, year_sets, i, start_date, date_to_check, check_out, head,
                   prev, dirty, entryHead, commit_hash, user_line_counts, printed, charts>>
    /\ UNCHANGED <<startHead, logVars, reportVars>>

\* git rev-list --before=date --max-count=1 HEAD
GitRevList ==
    /\ pc = "revlist"
    /\ \E rc \in {0, 1} :
        LET out == IF rc = 0 THEN RevList(head, date_to_check) ELSE ""
        IN  /\ trace' = Append(trace, Cmd("rev-list", "", rc, out))
            /\ IF rc # 0
               THEN EnterWalk(head, date_to_check) /\ commit_hash' = commit_hash
               ELSE /\ commit_hash' = out
                    /\ IF out # "" THEN pc' = "checkout" /\ todo' = todo
                       ELSE EnterWalk(head, date_to_check)
    /\ UNCHANGED <<mode, today, year_sets, i, start_date, date_to_check, check_out, head,
                   prev, dirty, entryHead, user_line_counts, printed, charts, error>>
    /\ UNCHANGED <<startHead, logVars, reportVars>>

\* git checkout commit_hash
GitCheckout ==
    /\ pc = "checkout"
    /\ \E rc \in {0, 1} :
        /\ trace' = Append(trace, Cmd("checkout", commit_hash, rc, ""))
        /\ IF rc = 0
           THEN head' = commit_hash /\ prev' = head
           ELSE UNCHANGED <<head, prev>>
        /\ EnterWalk(head', date_to_check)
    /\ UNCHANGED <<mode, today, year_sets, i, start_date, date_to_check, check_out,
                   dirty, entryHead, commit_hash, user_line_counts, printed, charts, error>>
    /\ UNCHANGED <<startHead, logVars, reportVars>>

\* git blame on the next file of the walk
BlameFile ==
    /\ pc = "walk"
    /\ todo # <<>>
    /\ \E r \in {"ok", "nonzero", "raise"} :
        /\ trace' = Append(trace, Cmd("blame", Head(todo).name, IF r = "ok" THEN 0 ELSE 1, r))
        /\ user_line_counts' = AfterBlame(user_line_counts, Head(todo).name, r)
        /\ printed' = IF r = "raise" THEN printed \cup {Head(todo).name} ELSE printed
    /\ todo' = Tail(todo)
    /\ UNCHANGED <<mode, today, year_sets, i, pc, start_date, date_to_check, check_out, head,
                   prev, dirty, entryHead, commit_hash, charts, error>>
    /\ UNCHANGED <<startHead, logVars, reportVars>>

\* the function returns to its caller
Return == pc' = IF mode = "main" THEN "charts" ELSE "done"

\* the walk is over: git checkout - when check_out, then the return
Restore ==
    /\ pc = "walk"
    /\ todo = <<>>
    /\ \/ /\ ~check_out
          /\ Return
          /\ UNCHANGED <<head, prev, trace, error>>
       \/ /\ check_out
          /\ prev # NoRef
          /\ trace' = Append(trace, Cmd("checkout", "-", 0, ""))
          /\ head' = RestoreTarget(prev)
          /\ prev' = head
          /\ Return
          /\ error' = error
       \/ /\ check_out
          /\ trace' = Append(trace, Cmd("checkout", "-", 1, ""))
          /\ Raise("CalledProcessError")
          /\ UNCHANGED <<head, prev>>
    /\ UNCHANGED <<mode, today, year_sets, i, start_date, date_to_check, check_out,
                   dirty, entryHead, commit_hash, todo, user_line_counts, printed, charts>>
    /\ UNCHANGED <<startHead, logVars, reportVars>>

\* main renders and saves the four charts of the year set
WriteCharts ==
    /\ pc = "charts"
    /\ charts' = charts \cup {i}
    /\ pc' = "main"
    /\ UNCHANGED <<mode, today, year_sets, i, start_date, date_to_check, check_out, head,
                   prev, dirty, entryHead, commit_hash, todo, user_line_counts, trace,
                   printed, error>>
    /\ UNCHANGED <<startHead, logVars, reportVars>>

\* main's loop is over
Finish ==
    /\ pc = "main"
    /\ i = Len(year_sets)
    /\ pc' = "done"
    /\ UNCHANGED <<mode, today, year_sets, i, start_date, date_to_check, check_out, head,
                   prev, dirty, entryHead, commit_hash, todo, user_line_counts, trace,
                   printed, charts, error, startHead>>
    /\ UNCHANGED <<startHead, logVars, reportVars>>

Next ==
    \/ StartYearSet
    \/ GitLog
    \/ DirectCall
    \/ GitStatus
    \/ GitRevList
    \/ GitCheckout
    \/ BlameFile
    \/ Restore
    \/ WriteCharts
    \/ Finish

Spec == Init /\ [][Next]_vars

(***************************************************************************)
(* What the claims about the git side speak of                             *)
(***************************************************************************)
\* get_code_lines_contributed is running
InCall == pc \in {"status", "revlist", "checkout", "walk"}

\* get_code_lines_contributed has returned to its caller
Returned == pc = "charts" \/ (mode = "direct" /\ pc = "done")

Ran(c) == {k \in DOMAIN trace : trace[k].cmd = c}
RevisionCheckouts == {k \in Ran("checkout") : trace[k].arg # "-"}

\* the resolved revision was checked out
CheckedOutRevision == \E k \in RevisionCheckouts : trace[k].rc = 0

BlameFailures == {k \in Ran("blame") : trace[k].rc # 0}

\* the reference the walk ran on
WalkHead == IF CheckedOutRevision THEN commit_hash ELSE entryHead

\* the lines of author a in the files whose blame succeeded
Tally(a) ==
    Cardinality({kl \in UNION {{<<k, l>> : l \in DOMAIN BlameAuthors(trace[k].arg)}
                                : k \in Ran("blame")} :
        /\ trace[kl[1]].rc = 0
        /\ BlameAuthors(trace[kl[1]].arg)[kl[2]] = a})

Names(files) == [k \in DOMAIN files |-> files[k].name]
Blamed == [k \in 1..Cardinality(Ran("blame")) |->
             trace[CHOOSE j \in Ran("blame") : Cardinality({m \in Ran("blame") : m <= j}) = k].arg]

\* C1: a call on the checkout path in which no revision was checked out returns
\* with the working tree on the reference it was entered with, and so the main
\* loop ends on the reference the program started on.
C1_ReferenceKeptWithoutCheckout ==
    /\ (Returned /\ check_out /\ ~CheckedOutRevision) => head = entryHead
    /\ (mode = "main" /\ pc = "done") => head = startHead

\* C2: a call in which the resolved revision was checked out returns with the
\* working tree back on the reference it was entered with, whichever blame
\* operations failed.
C2_ReferenceRestoredAfterCheckout ==
    (Returned /\ CheckedOutRevision) => head = entryHead

C2_Witness ==
    /\ Returned
    /\ CheckedOutRevision
    /\ entryHead = "dev"
    /\ \E k \in BlameFailures : trace[k].out = "nonzero"
    /\ \E k \in BlameFailures : trace[k].out = "raise"

\* a revision is checked out only after a clean status and a resolved revision,
\* and it is the resolved revision
CheckoutAfterResolution ==
    \A k \in RevisionCheckouts :
        /\ \E s \in Ran("status") : s < k /\ trace[s].rc = 0 /\ trace[s].out = ""
        /\ \E r \in Ran("rev-list") :
              r < k /\ trace[r].rc = 0 /\ trace[r].out # "" /\ trace[r].out = trace[k].arg

\* the call failed with the RuntimeError and ran no checkout and no blame
FailedBeforeAnyCheckout ==
    /\ pc = "aborted"
    /\ error = "RuntimeError"
    /\ Ran("checkout") = {}
    /\ Ran("blame") = {}

C6_CheckoutUnlessToday ==
    InCall => (check_out <=> date_to_check # today)

\* C7: when git log exits non-zero the run is over: the year set ran no other
\* command, has no chart, and the exception stands; the exception is raised for
\* no other reason.
C7_LogFailureAborts ==
    /\ (Ran("log") # {} /\ trace[1].rc # 0) =>
          /\ pc = "aborted"
          /\ error = "Exception"
          /\ Len(trace) = 1
          /\ charts = 1..(i - 1)
    /\ error = "Exception" => (Ran("log") # {} /\ trace[1].rc # 0)

C7_Witness ==
    /\ pc = "aborted"
    /\ error = "Exception"
    /\ i = 2
    /\ charts = {1}
    /\ Len(year_sets) > 2

\* the counts are the tally over the files whose blame succeeded, and the walk
\* skips no file
TallyOverSucceeded ==
    /\ \A a \in Authors : user_line_counts[a] = Tally(a)
    /\ pc = "walk" => Blamed \o Names(todo) = Names(WalkList(date_to_check, head))
    /\ Returned => Blamed = Names(WalkList(date_to_check, WalkHead))

\* C8 as stated: every failed blame is logged, the counts are the tally over the
\* files whose blame succeeded, and the walk goes on.
C8_Original ==
    (pc = "walk" \/ Returned) =>
        /\ \A k \in BlameFailures : trace[k].arg \in printed
        /\ TallyOverSucceeded

\* C8 amended: a blame that raises is logged, one that exits non-zero is skipped
\* without a message; either way the counts are the tally over the files whose
\* blame succeeded, and the walk goes on.
C8_FailedBlameSkipped ==
    (pc = "walk" \/ Returned) =>
        /\ printed = {trace[k].arg : k \in {j \in BlameFailures : trace[j].out = "raise"}}
        /\ TallyOverSucceeded

C8_Witness ==
    /\ Returned
    /\ \E k \in BlameFailures : trace[k].out = "nonzero"
    /\ \E k \in BlameFailures : trace[k].out = "raise"
    /\ \E k \in Ran("blame") : trace[k].rc = 0
    /\ \E a \in Authors : user_line_counts[a] > 0

(***************************************************************************)
(* The parser of the git log output (get_git_user_commit_summary)          *)
(***************************************************************************)
MaxCommits == 2
MaxStat == 2
LogAuthors == {"Alice", "Bob"}
Commit(a, n, m) == [author |-> a, ins |-> n, del |-> m]

\* a line of output: whether it starts with a space, its stripped text when it
\* does not, and its "<number> <words>" phrases when it does
AuthorLine(a) == [indent |-> FALSE, text |-> a, phrases |-> <<>>]
BlankLine == AuthorLine("")
Phrase(n, w) == [n |-> n, w |-> w]

\* git's shortstat line: a count of 0 is left out, a count of 1 is singular
StatLine(n, m) ==
    [indent |-> TRUE, text |-> "",
     phrases |-> <<Phrase(1, "file changed")>>
        \o (IF n = 0 THEN <<>>
            ELSE <<Phrase(n, IF n = 1 THEN "insertion(+)" ELSE "insertions(+)")>>)
        \o (IF m = 0 THEN <<>>
            ELSE <<Phrase(m, IF m = 1 THEN "deletion(-)" ELSE "deletions(-)")>>)]

RECURSIVE GitLogLines(_, _)
\* git log --shortstat --pretty=format:%an from commit k on: the author, the
\* shortstat line of a commit that changed lines, a blank line between commits
GitLogLines(cs, k) ==
    IF k > Len(cs) THEN <<>>
    ELSE <<AuthorLine(cs[k].author)>>
         \o (IF cs[k].ins + cs[k].del > 0 THEN <<StatLine(cs[k].ins, cs[k].del)>> ELSE <<>>)
         \o (IF k < Len(cs) THEN <<BlankLine>> ELSE <<>>)
         \o GitLogLines(cs, k + 1)

\* log_result.stdout.strip().split('\n'): an empty output is one empty line
SplitLines(lines) == IF lines = <<>> THEN <<BlankLine>> ELSE lines

NoMatch == -1
\* re.search(r'(\d+) <word>', line): the number of the first phrase whose words
\* start with <word>, when there is one
ReSearch(line, starts) ==
    LET hit == {k \in DOMAIN line.phrases : line.phrases[k].w \in starts}
    IN  IF hit = {} THEN NoMatch
        ELSE line.phrases[CHOOSE k \in hit : \A m \in hit : k <= m].n

\* the phrases "(\d+) insertions" and "(\d+) deletions" match
StartsWithInsertions == {"insertions(+)"}
StartsWithDeletions == {"deletions(-)"}

DictGet(d, k) == IF k \in DOMAIN d THEN d[k] ELSE 0
DictSet(d, k, v) == [x \in DOMAIN d \cup {k} |-> IF x = k THEN v ELSE d[x]]
EmptyDict == [x \in {} |-> 0]

gitIdle ==
    /\ mode = "idle"
    /\ today = <<>>
    /\ year_sets = <<>>
    /\ i = 0
    /\ pc = "idle"
    /\ start_date = <<>>
    /\ date_to_check = <<>>
    /\ check_out = FALSE
    /\ head = NoRef
    /\ prev = NoRef
    /\ dirty = FALSE
    /\ entryHead = NoRef
    /\ startHead = NoRef
    /\ commit_hash = ""
    /\ todo = <<>>
    /\ user_line_counts = ZeroCounts
    /\ trace = <<>>
    /\ printed = {}
    /\ charts = {}
    /\ error = ""

CommitSeqs(n) ==
    UNION {[1..k -> {Commit(a, x, y) : a \in LogAuthors, x \in 0..MaxStat, y \in 0..MaxStat}]
           : k \in 0..n}

InitLog ==
    /\ commits \in CommitSeqs(MaxCommits)
    /\ log_output = SplitLines(GitLogLines(commits, 1))
    /\ pos = 0
    /\ current_author = "None"
    /\ commit_summary = [git_commits |-> EmptyDict, lines_added |-> EmptyDict,
                         lines_deleted |-> EmptyDict]
    /\ gitIdle
    /\ reportIdle

\* the loop body on a line that does not start with a space
ParseAuthorLine ==
    /\ pos < Len(log_output)
    /\ ~log_output[pos + 1].indent
    /\ current_author' = log_output[pos + 1].text
    /\ commit_summary' =
          IF current_author' # ""
          THEN [commit_summary EXCEPT !.git_commits =
                    DictSet(@, current_author', DictGet(@, current_author') + 1)]
          ELSE commit_summary
    /\ pos' = pos + 1
    /\ UNCHANGED <<commits, log_output, gitVars, reportVars>>

\* the loop body on a line that starts with a space
ParseStatLine ==
    /\ pos < Len(log_output)
    /\ log_output[pos + 1].indent
    /\ LET added == ReSearch(log_output[pos + 1], StartsWithInsertions)
           deleted == ReSearch(log_output[pos + 1], StartsWithDeletions)
           s1 == IF added # NoMatch
                 THEN [commit_summary EXCEPT !.lines_added =
                          DictSet(@, current_author, DictGet(@, current_author) + added)]
                 ELSE commit_summary
       IN  commit_summary' =
              IF deleted # NoMatch
              THEN [s1 EXCEPT !.lines_deleted =
                       DictSet(@, current_author, DictGet(@, current_author) + deleted)]
              ELSE s1
    /\ pos' = pos + 1
    /\ UNCHANGED <<commits, log_output, current_author, gitVars, reportVars>>

NextLog ==
    \/ ParseAuthorLine
    \/ ParseStatLine

SpecLog == InitLog /\ [][NextLog]_vars

RECURSIVE SumOver(_, _, _, _)
\* the sum of field f ("n" counts the commits) over the commits of author a
SumOver(cs, a, f, k) ==
    IF k > Len(cs) THEN 0
    ELSE (IF cs[k].author # a THEN 0
          ELSE IF f = "ins" THEN cs[k].ins
          ELSE IF f = "del" THEN cs[k].del
          ELSE 1) + SumOver(cs, a, f, k + 1)

CommitAuthors == {commits[k].author : k \in DOMAIN commits}

\* C5: once the output is parsed, every author has the number of their commits,
\* the sum of their insertions and the sum of their deletions, and nobody else
\* has a count.
C5_CountsMatchLog ==
    pos = Len(log_output) =>
        /\ \A a \in LogAuthors :
              /\ DictGet(commit_summary.git_commits, a) = SumOver(commits, a, "n", 1)
              /\ DictGet(commit_summary.lines_added, a) = SumOver(commits, a, "ins", 1)
              /\ DictGet(commit_summary.lines_deleted, a) = SumOver(commits, a, "del", 1)
        /\ DOMAIN commit_summary.git_commits \subseteq CommitAuthors
        /\ DOMAIN commit_summary.lines_added \subseteq CommitAuthors
        /\ DOMAIN commit_summary.lines_deleted \subseteq CommitAuthors

(***************************************************************************)
(* The report (main's loop body after the summary): colours, alias         *)
(* folding, sorting, and the three lists handed to the pie chart.          *)
(* A name is the sequence of its code points, so that Python's string      *)
(* order is computed and not assumed.                                      *)
(***************************************************************************)
N_dr_ko == <<100, 114, 45, 107, 111>>
N_skoirala == <<115, 107, 111, 105, 114, 97, 108, 97>>
N_Nuno == <<78, 117, 110, 111>>
N_Nuno_Carvalhais == <<78, 117, 110, 111, 32, 67, 97, 114, 118, 97, 108, 104, 97, 105, 115>>
N_NC == <<78, 67>>
N_ncarval == <<110, 99, 97, 114, 118, 97, 108>>
N_Lazaro_Alonso == <<76, 97, 122, 97, 114, 111, 32, 65, 108, 111, 110, 115, 111>>
N_Lazaro_Alonso_Silva ==
    <<76, 97, 122, 97, 114, 111, 32, 65, 108, 111, 110, 115, 111, 32, 83, 105, 108, 118, 97>>
N_lazarusA == <<108, 97, 122, 97, 114, 117, 115, 65>>
N_Lazaro == <<76, 97, 122, 97, 114, 111>>
N_lalonso == <<108, 97, 108, 111, 110, 115, 111>>
N_Fabian_Gans == <<70, 97, 98, 105, 97, 110, 32, 71, 97, 110, 115>>
N_meggart == <<109, 101, 103, 103, 97, 114, 116>>
N_Tina_Trautmann == <<84, 105, 110, 97, 32, 84, 114, 97, 117, 116, 109, 97, 110, 110>>
N_Tina == <<84, 105, 110, 97>>
N_Bob == <<66, 111, 98>>

\* user_aliases, in its order: canonical name, aliases
user_aliases ==
    << <<N_dr_ko, <<N_skoirala>> >>,
       <<N_Nuno, <<N_Nuno_Carvalhais, N_NC, N_ncarval>> >>,
       <<N_Lazaro_Alonso, <<N_Lazaro_Alonso_Silva, N_lazarusA, N_Lazaro, N_lalonso>> >>,
       <<N_Fabian_Gans, <<N_meggart>> >>,
       <<N_Tina_Trautmann, <<N_Tina>> >> >>

Range(f) == {f[k] : k \in DOMAIN f}

\* alias_values: every alias of every canonical name
alias_values == UNION {Range(user_aliases[k][2]) : k \in DOMAIN user_aliases}

\* insertion-ordered dictionaries: sequences of <<key, value>> with distinct keys
Keys(d) == [k \in DOMAIN d |-> d[k][1]]
Has(d, key) == \E k \in DOMAIN d : d[k][1] = key
Get(d, key) == d[CHOOSE k \in DOMAIN d : d[k][1] = key][2]

\* user in user_aliases ... user_aliases[user]
AliasesOf(user) ==
    IF Has(user_aliases, user) THEN Get(user_aliases, user) ELSE <<>>

RECURSIVE AddAliases(_, _, _, _)
\* total_contribution after the aliases aliases[k..] present in md are added
AddAliases(total, aliases, md, k) ==
    IF k > Len(aliases) THEN total
    ELSE AddAliases(IF Has(md, aliases[k]) THEN total + Get(md, aliases[k]) ELSE total,
                    aliases, md, k + 1)

RECURSIVE FoldFrom(_, _)
\* unique_user_data built from the users md[k..]: an alias is left out, any
\* other user gets the own count plus the counts of the aliases present
FoldFrom(md, k) ==
    IF k > Len(md) THEN <<>>
    ELSE (IF md[k][1] \notin alias_values
          THEN << <<md[k][1], AddAliases(md[k][2], AliasesOf(md[k][1]), md, 1)>> >>
          ELSE <<>>)
         \o FoldFrom(md, k + 1)

Fold(md) == FoldFrom(md, 1)

RECURSIVE StrLessFrom(_, _, _)
\* Python's str order from position k on: by code point, a prefix first
StrLessFrom(a, b, k) ==
    IF k > Len(b) THEN FALSE
    ELSE IF k > Len(a) THEN TRUE
    ELSE IF a[k] # b[k] THEN a[k] < b[k]
    ELSE StrLessFrom(a, b, k + 1)

StrLess(a, b) == StrLessFrom(a, b, 1)

RECURSIVE Insert(_, _)
\* x put into the ascending sequence s, after the elements not greater than it
Insert(x, s) ==
    IF s = <<>> THEN <<x>>
    ELSE IF StrLess(x, Head(s)) THEN <<x>> \o s
    ELSE <<Head(s)>> \o Insert(x, Tail(s))

RECURSIVE SortFrom(_, _, _)
SortFrom(s, k, acc) == IF k > Len(s) THEN acc ELSE SortFrom(s, k + 1, Insert(s[k], acc))

\* a variant that keeps the insertion order
SortedMut(keys) == keys
\* sorted(keys): the keys in ascending str order
Sorted(keys) == SortFrom(keys, 1, <<>>)

Color(kind, r, g, b, a) == [kind |-> kind, r |-> r, g |-> g, b |-> b, a |-> a]

\* the fallback colour "#cccccc"
Grey == Color("hex", 204, 204, 204, 10)

RECURSIVE DigestFrom(_, _, _)
DigestFrom(name, k, h) ==
    IF k > Len(name) THEN h ELSE DigestFrom(name, k + 1, (h * 31 + name[k]) % 65521)

\* int(hashlib.md5(user.encode()).hexdigest(), 16): a number fixed by the bytes
\* of the name (a polynomial digest stands for MD5)
Md5(name) == DigestFrom(name, 1, 7)

\* a variant that does not reseed: the generator goes on from where it was
SeedMut(n, before) == before
\* the generator's state after random.seed(n), whatever it was before
Seed(n, before) == n % 65536

\* random.randint(0, 255): the value drawn and the state after it (a linear
\* congruential step stands for the Mersenne Twister)
RandInt(st) == <<((st * 75 + 74) % 65537) % 256, (st * 75 + 74) % 65537>>

RECURSIVE ColorsFrom(_, _, _, _)
\* color_mapping after the users users[k..], the generator being in state st
ColorsFrom(users, alpha, k, st) ==
    IF k > Len(users) THEN <<>>
    ELSE LET s0 == Seed(Md5(users[k]), st)
             d1 == RandInt(s0)
             d2 == RandInt(d1[2])
             d3 == RandInt(d2[2])
         IN  << <<users[k], Color("rgba", 255 - d1[1], 255 - d2[1], 255 - d3[1], alpha)>> >>
             \o ColorsFrom(users, alpha, k + 1, d3[2])

\* generate_unique_colors(users, alpha): alpha in tenths, the channels in 255ths
generate_unique_colors(users, alpha) == ColorsFrom(users, alpha, 1, 0)

\* user_colors[user] if user in user_colors.keys() else "#cccccc"
ColorFor(colors, user) == IF Has(colors, user) THEN Get(colors, user) ELSE Grey

MaxUsers == 2
Counts == {1, 2}
ReportNames == {N_dr_ko, N_skoirala, N_Bob}
Metrics == <<"git_commits", "lines_added", "lines_deleted", "#core_code_lines_current">>

\* the insertion-ordered dictionaries of at most n users
Dicts(n) ==
    UNION {{d \in [1..k -> ReportNames \X Counts] :
              \A x, y \in 1..k : x # y => d[x][1] # d[y][1]} : k \in 0..n}

InitReport ==
    /\ git_commits \in Dicts(MaxUsers)
    /\ metric = 0
    /\ metric_data = <<>>
    /\ user_colors = <<>>
    /\ unique_user_data = <<>>
    /\ sorted_users = <<>>
    /\ sorted_colors = <<>>
    /\ contributions = <<>>
    /\ gitIdle
    /\ logIdle

\* all_users = git_commits.keys(); user_colors = generate_unique_colors(all_users, 0.9)
ComputeColors ==
    /\ metric = 0
    /\ user_colors' = generate_unique_colors(Keys(git_commits), 9)
    /\ metric' = 1
    /\ UNCHANGED <<git_commits, metric_data, unique_user_data, sorted_users, sorted_colors,
                   contributions, gitVars, logVars>>

\* the raw counts a metric can hold: the parser gives lines only to authors of
\* commits, git blame names any author
RawCounts(m) ==
    IF m = 1 THEN {git_commits}
    ELSE IF m \in {2, 3}
    THEN {d \in Dicts(MaxUsers) : Range(Keys(d)) \subseteq Range(Keys(git_commits))}
    ELSE Dicts(MaxUsers)

\* one pass of the loop over the metrics: fold, sort, colours, values
RenderMetric ==
    /\ metric \in 1..Len(Metrics)
    /\ \E md \in RawCounts(metric) :
        /\ metric_data' = md
        /\ unique_user_data' = Fold(md)
    /\ sorted_users' = Sorted(Keys(unique_user_data'))
    /\ sorted_colors' = [k \in DOMAIN sorted_users' |-> ColorFor(user_colors, sorted_users'[k])]
    /\ contributions' = [k \in DOMAIN sorted_users' |-> Get(unique_user_data', sorted_users'[k])]
    /\ metric' = metric + 1
    /\ UNCHANGED <<git_commits, user_colors, gitVars, logVars>>

NextReport ==
    \/ ComputeColors
    \/ RenderMetric

SpecReport == InitReport /\ [][NextReport]_vars

\* a chart has been rendered
Rendered == metric >= 2

Get0(d, key) == IF Has(d, key) THEN Get(d, key) ELSE 0

RECURSIVE Total(_, _)
Total(d, k) == IF k > Len(d) THEN 0 ELSE d[k][2] + Total(d, k + 1)

RECURSIVE AliasSum(_, _, _)
AliasSum(aliases, md, k) ==
    IF k > Len(aliases) THEN 0 ELSE Get0(md, aliases[k]) + AliasSum(aliases, md, k + 1)

\* C4: every canonical author who occurs in the raw counts, under the own name
\* or an alias, has a folded entry worth the own count plus the aliases' counts;
\* no alias is a key of the folded output; the totals agree.
C4_AliasesFolded ==
    Rendered =>
        /\ \A c \in DOMAIN user_aliases :
              LET name == user_aliases[c][1]
                  aliases == user_aliases[c][2]
              IN  (Has(metric_data, name) \/ \E a \in Range(aliases) : Has(metric_data, a))
                    => /\ Has(unique_user_data, name)
                       /\ Get(unique_user_data, name)
                            = Get0(metric_data, name) + AliasSum(aliases, metric_data, 1)
        /\ \A a \in alias_values : ~Has(unique_user_data, a)
        /\ Total(unique_user_data, 1) = Total(metric_data, 1)

\* the colour generate_unique_colors derives from a name alone
ColorOfName(name) == Get(generate_unique_colors(<<name>>, 9), name)

\* C9 as stated: every slice has the colour derived from its author's name alone.
C9_Original ==
    Rendered =>
        \A k \in DOMAIN sorted_users : sorted_colors[k] = ColorOfName(sorted_users[k])

\* C9 amended: the slice of an author with a commit in the year range has the
\* colour derived from the name alone; the slice of any other author has the
\* fallback colour.
C9_ColorFromNameOrFallback ==
    Rendered =>
        \A k \in DOMAIN sorted_users :
            sorted_colors[k] = IF Has(git_commits, sorted_users[k])
                               THEN ColorOfName(sorted_users[k])
                               ELSE Grey

C9_Witness ==
    /\ metric = 5
    /\ Len(git_commits) = 2
    /\ Len(sorted_users) = 2
    /\ Has(git_commits, sorted_users[2])
    /\ sorted_users[2] # git_commits[1][1]
    /\ ~Has(git_commits, sorted_users[1])
    /\ sorted_colors[1] = Grey
    /\ sorted_colors[2] # Grey

====
